---- MODULE Spec2Model ----
(***************************************************************************)
(* Model of scripts/build.py, the static-site build of the link hub:       *)
(* ingest of data/daily.csv, merge into the history ledger, the enrichment *)
(* cache, the site blurb cache, page/sitemap/feed rendering and the        *)
(* outbound notifications.                                                 *)
(*                                                                         *)
(* Strings are sequences of one-character strings, so that strip, the      *)
(* whitespace removal, the comma split and the URL_RE prefix match are     *)
(* computed on characters as the code does.                                *)
(***************************************************************************)
EXTENDS Integers, Sequences, FiniteSets, TLC

\* ------------------------------------------------------------------------
\* Bounds
\* ------------------------------------------------------------------------
MaxPieces == 5      \* pieces concatenated to form the text of an input file
MaxFileLines == 2   \* lines of data/daily.csv in a build run
MaxRuns == 2        \* build runs in one behaviour of Spec
MaxEnrichRuns == 2  \* build runs in one behaviour of SpecEnrich
MaxSummaryRuns == 2 \* build runs in one behaviour of SpecSummary
MaxBlurbRuns == 2   \* build runs in one behaviour of SpecBlurb
MaxDisplayRuns == 2 \* build runs in one behaviour of SpecDisplay
MaxProcs == 2       \* concurrent runs in one behaviour of SpecConcurrent
MaxSeed == 5        \* seeds of the shuffle are 0..MaxSeed

\* ------------------------------------------------------------------------
\* Characters and string helpers
\* ------------------------------------------------------------------------
White == {" ", "\t"}

LowerChar(c) ==
    CASE c = "H" -> "h"
      [] c = "T" -> "t"
      [] c = "P" -> "p"
      [] c = "S" -> "s"
      [] c = "U" -> "u"
      [] c = "R" -> "r"
      [] c = "L" -> "l"
      [] OTHER -> c

Lower(s) == [i \in 1..Len(s) |-> LowerChar(s[i])]

IsPrefixOf(p, s) == Len(p) <= Len(s) /\ SubSeq(s, 1, Len(p)) = p

RECURSIVE lstrip(_)
lstrip(s) == IF s # <<>> /\ Head(s) \in White THEN lstrip(Tail(s)) ELSE s

RECURSIVE rstrip(_)
rstrip(s) ==
    IF s # <<>> /\ s[Len(s)] \in White THEN rstrip(SubSeq(s, 1, Len(s) - 1)) ELSE s

\* str.strip()
strip(s) == rstrip(lstrip(s))

\* re.sub(r"\s+", "", u)
RemoveWhitespace(s) == SelectSeq(s, LAMBDA c : c \notin White)

\* URL_RE = re.compile(r"^https?://", re.I); URL_RE.match(s)
HttpPrefix == <<"h", "t", "t", "p", ":", "/", "/">>
HttpsPrefix == <<"h", "t", "t", "p", "s", ":", "/", "/">>
URL_RE_match(s) == IsPrefixOf(HttpPrefix, Lower(s)) \/ IsPrefixOf(HttpsPrefix, Lower(s))

\* s.split(","): the fields between commas, empty fields included
RECURSIVE SplitFrom(_, _, _)
SplitFrom(s, i, cur) ==
    IF i > Len(s) THEN <<cur>>
    ELSE IF s[i] = "," THEN <<cur>> \o SplitFrom(s, i + 1, <<>>)
    ELSE SplitFrom(s, i + 1, Append(cur, s[i]))

split_comma(s) == SplitFrom(s, 1, <<>>)

Range(f) == {f[i] : i \in DOMAIN f}

Reverse(q) == [i \in 1..Len(q) |-> q[Len(q) + 1 - i]]

\* ------------------------------------------------------------------------
\* Ingest: normalize_url, read_input_urls, dedupe_preserve_order
\* ------------------------------------------------------------------------
\* variant that strips the ends only
normalize_url_strip_only(u) == strip(u)

normalize_url(u) == RemoveWhitespace(strip(u))

HeaderWord == <<"u", "r", "l">>

\* [p.strip() for p in s.split(",") if p.strip()]
LegacyParts(s) ==
    LET raw == split_comma(s)
        stripped == [i \in 1..Len(raw) |-> strip(raw[i])]
    IN  SelectSeq(stripped, LAMBDA p : p # <<>>)

\* variant that lacks the final URL_RE test (line 112)
ReadLine_unfiltered(i, raw) ==
    LET s == strip(raw) IN
    IF s = <<>> THEN <<>>
    ELSE IF i = 0 /\ Lower(s) = HeaderWord THEN <<>>
    ELSE
      LET parts == LegacyParts(s)
          s2 == IF "," \in Range(s) /\ ~URL_RE_match(s)
                   /\ parts # <<>> /\ URL_RE_match(parts[Len(parts)])
                THEN parts[Len(parts)]
                ELSE s
      IN  <<s2>>

\* the body of the loop of read_input_urls for line number i (0-based)
ReadLine(i, raw) ==
    LET s == strip(raw) IN
    IF s = <<>> THEN <<>>
    ELSE IF i = 0 /\ Lower(s) = HeaderWord THEN <<>>
    ELSE
      LET parts == LegacyParts(s)
          s2 == IF "," \in Range(s) /\ ~URL_RE_match(s)
                   /\ parts # <<>> /\ URL_RE_match(parts[Len(parts)])
                THEN parts[Len(parts)]
                ELSE s
      IN  IF URL_RE_match(s2) THEN <<s2>> ELSE <<>>

RECURSIVE ReadLinesFrom(_, _)
ReadLinesFrom(lines, i) ==
    IF i > Len(lines) THEN <<>>
    ELSE ReadLine(i - 1, lines[i]) \o ReadLinesFrom(lines, i + 1)

\* a text file of lines: absent, or present with its lines
NoFile == [exists |-> FALSE, lines |-> <<>>]
FileOf(ls) == [exists |-> TRUE, lines |-> ls]

\* read_input_urls(): [] when DATA_FILE does not exist
read_input_urls(file) == IF ~file.exists THEN <<>> ELSE ReadLinesFrom(file.lines, 1)

RECURSIVE DedupeFrom(_, _, _, _)
DedupeFrom(urls, i, seen, out) ==
    IF i > Len(urls) THEN out
    ELSE
      LET nu == normalize_url(urls[i]) IN
      IF nu = <<>> THEN DedupeFrom(urls, i + 1, seen, out)
      ELSE IF nu \in seen THEN DedupeFrom(urls, i + 1, seen, out)
      ELSE DedupeFrom(urls, i + 1, seen \cup {nu}, Append(out, nu))

dedupe_preserve_order(urls) == DedupeFrom(urls, 1, {}, <<>>)

\* ------------------------------------------------------------------------
\* History ledger: rows <<date, url>>; a date is a day number
\* ------------------------------------------------------------------------
NoHistory == [exists |-> FALSE, rows |-> <<>>]

\* read_history(): rows with fewer than two fields or an empty field are
\* skipped, the url field is stripped
read_history(file) ==
    IF ~file.exists THEN <<>>
    ELSE
      LET ok == SelectSeq(file.rows, LAMBDA r : Len(r) >= 2 /\ strip(r[2]) # <<>>)
      IN  [i \in 1..Len(ok) |-> <<ok[i][1], strip(ok[i][2])>>]

\* write_history(rows): the file is rewritten whole
write_history(rows) == [exists |-> TRUE, rows |-> rows]

UrlsOf(history) == [i \in 1..Len(history) |-> history[i][2]]

RECURSIVE MergeFrom(_, _, _, _, _, _)
MergeFrom(input_urls, i, today, history, existing, changed) ==
    IF i > Len(input_urls) THEN [history |-> history, changed |-> changed]
    ELSE IF input_urls[i] \in existing
    THEN MergeFrom(input_urls, i + 1, today, history, existing, changed)
    ELSE MergeFrom(input_urls, i + 1, today,
                   Append(history, <<today, input_urls[i]>>),
                   existing \cup {input_urls[i]}, TRUE)

\* variant whose loop takes the new urls in reverse input order
update_history_reversed(file, input_urls, today) ==
    LET history == read_history(file)
        m == MergeFrom(Reverse(input_urls), 1, today, history, Range(UrlsOf(history)), FALSE)
    IN  [history |-> m.history,
         file |-> IF m.changed THEN write_history(m.history) ELSE file,
         changed |-> m.changed]

\* variant that does not look at the urls already in the ledger
update_history_no_existing(file, input_urls, today) ==
    LET history == read_history(file)
        m == MergeFrom(input_urls, 1, today, history, {}, FALSE)
    IN  [history |-> m.history,
         file |-> IF m.changed THEN write_history(m.history) ELSE file,
         changed |-> m.changed]

\* variant that gives today's date to the row of a url ingested again
update_history_redate(file, input_urls, today) ==
    LET history == read_history(file)
        redated == [i \in 1..Len(history) |->
                       IF history[i][2] \in Range(input_urls)
                       THEN <<today, history[i][2]>> ELSE history[i]]
        m == MergeFrom(input_urls, 1, today, redated, Range(UrlsOf(history)), FALSE)
    IN  [history |-> m.history,
         file |-> IF m.changed \/ redated # history THEN write_history(m.history) ELSE file,
         changed |-> m.changed \/ redated # history]

\* variant whose membership test is on the (date, url) row
update_history_row_key(file, input_urls, today) ==
    LET history == read_history(file)
        known == {history[i][2] : i \in {k \in DOMAIN history : history[k][1] = today}}
        m == MergeFrom(input_urls, 1, today, history, known, FALSE)
    IN  [history |-> m.history,
         file |-> IF m.changed THEN write_history(m.history) ELSE file,
         changed |-> m.changed]

\* variant of the second half that reads the history file again before it
\* appends, as a run holding a lock on the file would
merge_and_write_reread(file, history, input_urls, today) ==
    LET cur == read_history(file)
        m == MergeFrom(input_urls, 1, today, cur, Range(UrlsOf(cur)), FALSE)
    IN  [history |-> m.history,
         file |-> IF m.changed THEN write_history(m.history) ELSE file,
         changed |-> m.changed]

\* update_history_with_today after its read_history (lines 152-164): the
\* loop over input_urls on the ledger `history` read earlier, and the
\* rewrite of the file `file` as it is by then
merge_and_write(file, history, input_urls, today) ==
    LET m == MergeFrom(input_urls, 1, today, history, Range(UrlsOf(history)), FALSE)
    IN  [history |-> m.history,
         file |-> IF m.changed THEN write_history(m.history) ELSE file,
         changed |-> m.changed]

\* variant that puts the new rows before the rows it read
update_history_prepend(file, input_urls, today) ==
    LET history == read_history(file)
        m == MergeFrom(input_urls, 1, today, history, Range(UrlsOf(history)), FALSE)
        new == SubSeq(m.history, Len(history) + 1, Len(m.history)) \o history
    IN  [history |-> new,
         file |-> IF m.changed THEN write_history(new) ELSE file,
         changed |-> m.changed]

\* variant that writes the history file on every call
update_history_always_write(file, input_urls, today) ==
    LET history == read_history(file)
        m == MergeFrom(input_urls, 1, today, history, Range(UrlsOf(history)), FALSE)
    IN  [history |-> m.history, file |-> write_history(m.history), changed |-> TRUE]

\* update_history_with_today(input_urls, today) on the history file `file`:
\* the returned ledger and the file as it is left
update_history_with_today(file, input_urls, today) ==
    merge_and_write(file, read_history(file), input_urls, today)

\* group_by_date(history).keys(): the dates in order of first appearance
RECURSIVE DaysFrom(_, _, _)
DaysFrom(history, i, out) ==
    IF i > Len(history) THEN out
    ELSE IF history[i][1] \in Range(out) THEN DaysFrom(history, i + 1, out)
    ELSE DaysFrom(history, i + 1, Append(out, history[i][1]))

group_by_date_keys(history) == DaysFrom(history, 1, <<>>)

\* group_by_date(history)[day]
group_by_date_get(history, day) ==
    UrlsOf(SelectSeq(history, LAMBDA r : r[1] = day))

\* ------------------------------------------------------------------------
\* Time: the clock counts half days; a timestamp string is absent (""),
\* unparsable, or the clock value it was written at
\* ------------------------------------------------------------------------
UnitsPerDay == 2
ENRICH_TTL_DAYS == 14
SITE_BLURB_TTL_DAYS == 30
UnparsableAge == 999999

NoStamp == [s |-> "none", t |-> 0]
BadStamp == [s |-> "bad", t |-> 0]
Stamp(t) == [s |-> "ok", t |-> t]

\* utc_today_iso() at clock value t
utc_today_iso(t) == t \div UnitsPerDay

\* utc_now_iso_z() at clock value t
utc_now_iso_z(t) == Stamp(t)

\* _days_old(utc_z) at clock value t: timedelta.days floors
_days_old(utc_z, t) ==
    IF utc_z.s = "ok" THEN (t - utc_z.t) \div UnitsPerDay ELSE UnparsableAge

\* ------------------------------------------------------------------------
\* Enrichment cache file data/enriched.json
\*   kind "missing" | "corrupt" (not JSON) | "json"
\*   itemsTy: "absent" (no "items" key), "dict", "other" (truthy non-dict)
\* ------------------------------------------------------------------------
EmptyDict == <<>>
CacheMissing == [kind |-> "missing", itemsTy |-> "absent", items |-> EmptyDict]
CacheCorrupt == [kind |-> "corrupt", itemsTy |-> "absent", items |-> EmptyDict]
CacheDoc(ty, items) == [kind |-> "json", itemsTy |-> ty, items |-> items]

\* _load_enrich_cache / _load_site_blurb_cache
_load_cache(file) ==
    IF file.kind = "json" THEN file ELSE CacheDoc("dict", EmptyDict)

\* items = cache.get("items") or {}; if not isinstance(items, dict): ...
\* `bound` tells whether the local items is the object held by cache["items"]:
\* an empty or absent mapping is falsy, so `or {}` yields a fresh dict that
\* is never stored back into cache
LoadItems(cache) ==
    IF cache.itemsTy = "dict" /\ cache.items # EmptyDict
    THEN [items |-> cache.items, bound |-> TRUE, cache |-> cache]
    ELSE IF cache.itemsTy = "other"
    THEN [items |-> EmptyDict, bound |-> TRUE, cache |-> CacheDoc("dict", EmptyDict)]
    ELSE [items |-> EmptyDict, bound |-> FALSE, cache |-> cache]

\* _save_enrich_cache(cache) / _save_site_blurb_cache(cache) as seen from the
\* caller, whose local items is written only when cache["items"] is that object
SaveCache(cache, items, bound) ==
    IF bound THEN CacheDoc("dict", items) ELSE CacheDoc(cache.itemsTy, cache.items)

DictGet(d, k) == IF k \in DOMAIN d THEN d[k] ELSE [fetched_utc |-> NoStamp]

\* variant that keeps only the entry it sets
DictPut_alone(d, k, v) == [x \in {k} |-> v]

DictPut(d, k, v) == [x \in (DOMAIN d) \cup {k} |-> IF x = k THEN v ELSE d[x]]

\* ------------------------------------------------------------------------
\* Outcomes of the external calls
\* ------------------------------------------------------------------------
\* _fetch_basic_meta(url): any failure gives http_status 0 and empty fields
FetchFailed == [http_status |-> 0, title |-> "", description |-> ""]
FetchOutcomes ==
    { FetchFailed,
      [http_status |-> 200, title |-> "T", description |-> "D"] }

\* a JSON value of a field of the model's answer: absent/null, a string, or
\* a truthy value of another type (number, list, object)
JNone == [ty |-> "none", v |-> ""]
JStr(v) == [ty |-> "str", v |-> v]
JOther == [ty |-> "other", v |-> ""]

Truthy(j) == j.ty = "other" \/ (j.ty = "str" /\ j.v # "")

\* _gemini_json(prompt): {} on a missing key, any HTTP failure, a non-2xx
\* status, unparsable text or a non-object; else the parsed object
AiEmpty == [title |-> JNone, summary |-> JNone]
AiAnswers ==
    { AiEmpty,
      [title |-> JStr("AT"), summary |-> JStr("S")],
      [title |-> JNone, summary |-> JOther],
      [title |-> JOther, summary |-> JStr("S")] }

_gemini_json(key, answer) == IF key = "" THEN AiEmpty ELSE answer

\* _gemini_summary: (out.get("title") or title or "").strip() and
\* (out.get("summary") or "").strip() raise AttributeError on a truthy
\* non-string; an empty summary gives {}
_gemini_summary(out, title) ==
    IF out.title.ty = "other" \/ out.summary.ty = "other"
    THEN [raised |-> TRUE, ok |-> FALSE, title |-> "", summary |-> ""]
    ELSE
      LET t == IF Truthy(out.title) THEN out.title.v ELSE title
          sm == IF Truthy(out.summary) THEN out.summary.v ELSE ""
      IN  IF sm = ""
          THEN [raised |-> FALSE, ok |-> FALSE, title |-> "", summary |-> ""]
          ELSE [raised |-> FALSE, ok |-> TRUE, title |-> t, summary |-> sm]

\* variant that leaves the record of a failed fetch without a timestamp
EnrichRecord_unstamped_failure(u, basic, ai, t) ==
    LET title == IF ai.ok /\ ai.title # "" THEN ai.title ELSE basic.title
        summ == IF ai.ok THEN ai.summary
                ELSE IF basic.description # "" THEN basic.description
                ELSE IF basic.title # "" THEN basic.title
                ELSE ""
    IN  [http_status |-> basic.http_status,
         title |-> title,
         description |-> basic.description,
         summary |-> summ,
         fetched_utc |-> IF basic.http_status = 0 THEN NoStamp ELSE utc_now_iso_z(t)]

\* variant whose summary is a placeholder when nothing was scraped
EnrichRecord_placeholder(u, basic, ai, t) ==
    LET title == IF ai.ok /\ ai.title # "" THEN ai.title ELSE basic.title
        summ == IF ai.ok THEN ai.summary
                ELSE IF basic.description # "" THEN basic.description
                ELSE IF basic.title # "" THEN basic.title
                ELSE "n/a"
    IN  [http_status |-> basic.http_status,
         title |-> title,
         description |-> basic.description,
         summary |-> summ,
         fetched_utc |-> utc_now_iso_z(t)]

\* variant whose fallback summary prefers the title to the description
EnrichRecord_title_first(u, basic, ai, t) ==
    LET title == IF ai.ok /\ ai.title # "" THEN ai.title ELSE basic.title
        summ == IF ai.ok THEN ai.summary
                ELSE IF basic.title # "" THEN basic.title
                ELSE IF basic.description # "" THEN basic.description
                ELSE ""
    IN  [http_status |-> basic.http_status,
         title |-> title,
         description |-> basic.description,
         summary |-> summ,
         fetched_utc |-> utc_now_iso_z(t)]

\* the record enrich_urls builds for a refreshed url (lines 520-550)
EnrichRecord(u, basic, ai, t) ==
    LET title == IF ai.ok /\ ai.title # "" THEN ai.title ELSE basic.title
        summ == IF ai.ok THEN ai.summary
                ELSE IF basic.description # "" THEN basic.description
                ELSE IF basic.title # "" THEN basic.title
                ELSE ""
    IN  [http_status |-> basic.http_status,
         title |-> title,
         description |-> basic.description,
         summary |-> summ,
         fetched_utc |-> utc_now_iso_z(t)]

\* variant that refreshes only entries strictly older than the TTL
needs_refresh_strict(cur, t) ==
    IF cur.fetched_utc.s # "none"
    THEN _days_old(cur.fetched_utc, t) > ENRICH_TTL_DAYS
    ELSE TRUE

\* needs_refresh of enrich_urls (lines 510-515)
needs_refresh(cur, t) ==
    IF cur.fetched_utc.s # "none"
    THEN _days_old(cur.fetched_utc, t) >= ENRICH_TTL_DAYS
    ELSE TRUE

\* ------------------------------------------------------------------------
\* Site blurb (get_site_blurb and its helpers)
\* ------------------------------------------------------------------------
BlurbEmpty == [blurb |-> JNone, meta_description |-> JNone]
BlurbAnswers ==
    { BlurbEmpty,
      [blurb |-> JStr("B"), meta_description |-> JStr("M")],
      [blurb |-> JStr("B"), meta_description |-> JNone],
      [blurb |-> JOther, meta_description |-> JStr("M")] }

_fallback_site_blurb(t) ==
    [blurb |-> "fallback", meta_description |-> "fallback", fetched_utc |-> utc_now_iso_z(t)]

\* _gemini_site_blurb: (out.get(..) or "").strip() raises on a truthy
\* non-string; {} unless both fields are non-empty
_gemini_site_blurb(key, answer, t) ==
    LET out == _gemini_json(key, answer) IN
    IF key = "" THEN [raised |-> FALSE, ok |-> FALSE, rec |-> _fallback_site_blurb(t)]
    ELSE IF out.blurb.ty = "other" \/ out.meta_description.ty = "other"
    THEN [raised |-> TRUE, ok |-> FALSE, rec |-> _fallback_site_blurb(t)]
    ELSE IF ~Truthy(out.blurb) \/ ~Truthy(out.meta_description)
    THEN [raised |-> FALSE, ok |-> FALSE, rec |-> _fallback_site_blurb(t)]
    ELSE [raised |-> FALSE, ok |-> TRUE,
          rec |-> [blurb |-> out.blurb.v, meta_description |-> out.meta_description.v,
                   fetched_utc |-> utc_now_iso_z(t)]]

\* key = (BASE_URL or "").strip() or (SITE_VARIANT or "local")
BlurbKey(c) ==
    IF c.BASE_URL # "" THEN c.BASE_URL
    ELSE IF c.SITE_VARIANT # "" THEN c.SITE_VARIANT ELSE "local"

\* get_site_blurb(): the record returned, the cache file as it is left,
\* whether the endpoint was called and whether an exception escaped
get_site_blurb(c, file, answer, t) ==
    LET ld == LoadItems(_load_cache(file))
        key == BlurbKey(c)
        cur == DictGet(ld.items, key)
        g == _gemini_site_blurb(c.GEMINI_API_KEY, answer, t)
        fb == _fallback_site_blurb(t)
    IN  IF ~c.ENABLE_SITE_BLURB
        THEN [raised |-> FALSE, rec |-> fb, file |-> file, called |-> FALSE]
        ELSE IF cur.fetched_utc.s # "none" /\ _days_old(cur.fetched_utc, t) < SITE_BLURB_TTL_DAYS
        THEN [raised |-> FALSE, rec |-> cur, file |-> file, called |-> FALSE]
        ELSE IF c.GEMINI_API_KEY # "" /\ g.raised
        THEN [raised |-> TRUE, rec |-> fb, file |-> file, called |-> TRUE]
        ELSE IF c.GEMINI_API_KEY # "" /\ g.ok
        THEN [raised |-> FALSE, rec |-> g.rec,
              file |-> SaveCache(ld.cache, DictPut(ld.items, key, g.rec), ld.bound),
              called |-> TRUE]
        ELSE [raised |-> FALSE, rec |-> fb,
              file |-> SaveCache(ld.cache, DictPut(ld.items, key, fb), ld.bound),
              called |-> c.GEMINI_API_KEY # ""]

\* ------------------------------------------------------------------------
\* Pages and feeds
\* ------------------------------------------------------------------------
\* a local page: its file name, and the day of a d/<day>.html page
Page(name) == [name |-> name, day |-> 0]
DayPage(day) == [name |-> "d", day |-> day]

\* abs_url(path): BASE_URL + path, or the relative path when BASE_URL is empty
abs_url(c, page) == [base |-> c.BASE_URL, page |-> page]

\* variant that writes the daily page of the latest ledger row only
MainPagesWritten_latest_day(history) ==
    {Page("index.html"), Page("all.html")}
        \cup {DayPage(history[i][1]) : i \in {k \in DOMAIN history : k = Len(history)}}

\* files written by build_main_pages, build_static_pages and build_robots
MainPagesWritten(history) ==
    {Page("index.html"), Page("all.html")}
        \cup {DayPage(d) : d \in Range(group_by_date_keys(history))}

StaticPagesWritten == {Page("about.html"), Page("status.html"), Page("robots.txt")}

\* local_pages of main (lines 1373-1387)
LocalPages(c, history) ==
    LET days == group_by_date_keys(history) IN
    << abs_url(c, Page("")), abs_url(c, Page("index.html")), abs_url(c, Page("all.html")),
       abs_url(c, Page("sitemap.xml")), abs_url(c, Page("rss.xml")),
       abs_url(c, Page("robots.txt")), abs_url(c, Page("about.html")),
       abs_url(c, Page("status.html")), abs_url(c, Page("backlink-feed.xml")) >>
    \o [i \in 1..Len(days) |-> abs_url(c, DayPage(days[i]))]

\* build_sitemap(page_urls): one <url> element per entry, in order
build_sitemap(page_urls) == page_urls

Take(q, n) == SubSeq(q, 1, IF n < Len(q) THEN n ELSE Len(q))

\* q without its element at position k
RemoveAt(q, k) == SubSeq(q, 1, k - 1) \o SubSeq(q, k + 1, Len(q))

\* random.Random(seed).shuffle(out): a permutation of the list fixed by the
\* seed; the seeds 0 .. n!-1 give the n! permutations of a list of n elements
RECURSIVE ShuffleBy(_, _)
ShuffleBy(q, seed) ==
    IF q = <<>> THEN <<>>
    ELSE LET k == (seed % Len(q)) + 1
         IN  <<q[k]>> \o ShuffleBy(RemoveAt(q, k), seed \div Len(q))

\* _seed_int(BASE_URL, SITE_VARIANT, scope, BUILD_NONCE): the first 64 bits
\* of a SHA-256 digest, any value for any deployment and scope
Seeds == 0..MaxSeed

\* shuffle_for_site(items, scope) under the seed of the deployment and scope
shuffle_for_site(items, seed) == IF items = <<>> THEN <<>> ELSE ShuffleBy(items, seed)

\* build_main_pages lines 1037-1038: shuffle_for_site(...)[:MAX_ALL_LIST]
display_list(c, urls, seed) == Take(shuffle_for_site(urls, seed), c.MAX_ALL_LIST)

\* ------------------------------------------------------------------------
\* Environment configuration (module globals read from os.environ)
\* ------------------------------------------------------------------------
DefaultConfig ==
    [BASE_URL |-> "", SITE_VARIANT |-> "", ENABLE_AI |-> FALSE, GEMINI_API_KEY |-> "",
     ENABLE_SITE_BLURB |-> TRUE, ENABLE_INDEXNOW |-> TRUE, ENABLE_PINGOMATIC |-> TRUE,
     MAX_AI_CALLS |-> 30, MAX_RSS_ITEMS |-> 200, MAX_ALL_LIST |-> 500, BUILD_NONCE |-> ""]

\* ------------------------------------------------------------------------
\* Inputs of a build run
\* ------------------------------------------------------------------------
UrlA == HttpPrefix \o <<"a">>
UrlB == HttpsPrefix \o <<"b">>
UrlZ == HttpPrefix \o <<"z">>

RunLines == { UrlA, UrlB, UrlA \o <<" ">>, <<"x", ",">> \o UrlB }

SeqsUpTo(S, n) == UNION {[1..k -> S] : k \in 0..n}

DataFiles == {NoFile} \cup {FileOf(ls) : ls \in SeqsUpTo(RunLines, MaxFileLines)}

\* clock values at which a run may start
Times == {0, 1, ENRICH_TTL_DAYS * UnitsPerDay, 20 * UnitsPerDay}

OldRecord(stamp) ==
    [http_status |-> 200, title |-> "old", description |-> "", summary |-> "old",
     fetched_utc |-> stamp]

\* data/enriched.json as found by the first run
InitEnrichFiles ==
    { CacheMissing, CacheCorrupt,
      CacheDoc("dict", EmptyDict), CacheDoc("absent", EmptyDict),
      CacheDoc("other", EmptyDict),
      CacheDoc("dict", [u \in {UrlA} |-> OldRecord(Stamp(0))]),
      CacheDoc("dict", [u \in {UrlA} |-> OldRecord(BadStamp)]),
      CacheDoc("dict", [u \in {UrlZ} |-> OldRecord(Stamp(0))]) }

NoBlurb == [blurb |-> "", meta_description |-> "", fetched_utc |-> NoStamp]
NoNotify == [posted |-> FALSE, urlList |-> <<>>, status |-> 0, pinged |-> FALSE]
NoBuild ==
    [built |-> FALSE, cfg |-> DefaultConfig, now |-> 0, history |-> <<>>,
     blurb |-> NoBlurb, all |-> <<>>, index |-> <<>>]

\* the concurrent runs and the locals of update_history_with_today in each
Procs == 1..MaxProcs
NoProc == [pc |-> "idle", input_urls |-> <<>>, today |-> 0, read |-> <<>>, history |-> <<>>]

\* ------------------------------------------------------------------------
\* State
\* ------------------------------------------------------------------------
VARIABLES
    cfg,            \* environment configuration of the deployment
    pc,             \* position of the build process
    runs,           \* build runs started
    now,            \* clock value of the current run
    lines,          \* read_input_urls: lines (of a call checked on its own)
    raw_urls,       \* read_input_urls: urls (of a call checked on its own)
    input_urls,     \* main: input_urls
    history,        \* main: history (the ledger in memory)
    historyFile,    \* data/history.csv
    enrichFile,     \* data/enriched.json
    blurbFile,      \* data/site_blurbs.json
    cache,          \* enrich_urls: cache
    items,          \* enrich_urls: items
    bound,          \* enrich_urls: items is the object cache["items"]
    ai_calls_left,  \* enrich_urls: ai_calls_left
    idx,            \* enrich_urls: position in target_urls
    fetched,        \* urls fetched by the current call of enrich_urls
    scraped,        \* what _fetch_basic_meta returned for each of them
    ai_ok,          \* the urls among them for which _gemini_summary gave a summary
    ai_called,      \* calls of the generative endpoint in the current run
    site_blurb,     \* main: site_blurb
    written,        \* page files written by the current run
    all_display,    \* build_main_pages: all_for_display, the table of all.html
    index_display,  \* build_main_pages: index_for_display, the table of index.html
    today_link,     \* the today page that index.html and all.html link to
    sitemap,        \* entries of docs/sitemap.xml
    rss,            \* items of docs/rss.xml
    notify,         \* IndexNow / Pingomatic calls of the current run
    first_run,      \* history of the runs: url -> date of the first run ingesting it
    prev_input,     \* input_urls of the previous run
    hist_before,    \* data/history.csv before the merge of the current run
    prev_build,     \* what the build before a redeployment returned and displayed
    procs,          \* concurrent runs: position and locals of each process
    last_writer     \* concurrent runs: the process that wrote data/history.csv last

vars == <<cfg, pc, runs, now, lines, raw_urls, input_urls, history, historyFile,
          enrichFile, blurbFile, cache, items, bound, ai_calls_left, idx, fetched,
          scraped, ai_ok, ai_called, site_blurb, written, all_display, index_display,
          today_link, sitemap, rss, notify, first_run, prev_input, hist_before,
          prev_build, procs, last_writer>>

fileVars == <<historyFile, enrichFile, blurbFile>>
enrichVars == <<cache, items, bound, ai_calls_left, idx, fetched, scraped, ai_ok>>
outVars == <<written, all_display, index_display, today_link, sitemap, rss, notify>>
ghostVars == <<first_run, prev_input, hist_before, prev_build>>
concVars == <<procs, last_writer>>

NoLink == Page("")

InitRun ==
    /\ runs = 0
    /\ now = 0
    /\ lines = NoFile
    /\ raw_urls = <<>>
    /\ input_urls = <<>>
    /\ history = <<>>
    /\ cache = CacheDoc("dict", EmptyDict)
    /\ items = EmptyDict
    /\ bound = FALSE
    /\ ai_calls_left = 0
    /\ idx = 1
    /\ fetched = {}
    /\ scraped = EmptyDict
    /\ ai_ok = {}
    /\ ai_called = 0
    /\ site_blurb = NoBlurb
    /\ written = {}
    /\ all_display = <<>>
    /\ index_display = <<>>
    /\ today_link = NoLink
    /\ sitemap = <<>>
    /\ rss = <<>>
    /\ notify = NoNotify
    /\ first_run = EmptyDict
    /\ prev_input = <<>>
    /\ hist_before = NoHistory
    /\ prev_build = NoBuild
    /\ procs = [p \in Procs |-> NoProc]
    /\ last_writer = 0

\* ------------------------------------------------------------------------
\* main(), step by step
\* ------------------------------------------------------------------------
\* the urls of input ingested for the first time get the date of this run
RecordFirstRun(fr, urls, today) ==
    [u \in (DOMAIN fr) \cup Range(urls) |-> IF u \in DOMAIN fr THEN fr[u] ELSE today]

\* lines 1355-1358: ingest and history merge, at clock value t with
\* data/daily.csv = file
StartRun(t, file, cap) ==
    LET raw == read_input_urls(file)
        inp == dedupe_preserve_order(raw)
        today == utc_today_iso(t)
        m == update_history_with_today(historyFile, inp, today)
    IN  /\ pc \in {"idle", "done", "raised", "redeployed"}
        /\ runs < cap
        /\ runs' = runs + 1
        /\ now' = t
        /\ input_urls' = inp
        /\ history' = m.history
        /\ historyFile' = m.file
        /\ pc' = "merged"
        /\ first_run' = RecordFirstRun(first_run, inp, today)
        /\ prev_input' = input_urls
        /\ hist_before' = historyFile
        /\ cache' = CacheDoc("dict", EmptyDict)
        /\ items' = EmptyDict
        /\ bound' = FALSE
        /\ ai_calls_left' = 0
        /\ idx' = 1
        /\ fetched' = {}
        /\ scraped' = EmptyDict
        /\ ai_ok' = {}
        /\ ai_called' = 0
        /\ site_blurb' = NoBlurb
        /\ written' = {}
        /\ all_display' = <<>>
        /\ index_display' = <<>>
        /\ today_link' = NoLink
        /\ sitemap' = <<>>
        /\ rss' = <<>>
        /\ notify' = NoNotify
        /\ UNCHANGED <<cfg, lines, raw_urls, enrichFile, blurbFile, prev_build, concVars>>

\* main: all_urls_unique, the target_urls of enrich_urls
all_urls_unique == dedupe_preserve_order(UrlsOf(history))

\* enrich_urls lines 497-503
EnrichLoad ==
    LET ld == LoadItems(_load_cache(enrichFile)) IN
    /\ pc = "merged"
    /\ cache' = ld.cache
    /\ items' = ld.items
    /\ bound' = ld.bound
    /\ ai_calls_left' = cfg.MAX_AI_CALLS
    /\ idx' = 1
    /\ fetched' = {}
    /\ scraped' = EmptyDict
    /\ ai_ok' = {}
    /\ pc' = "enrich"
    /\ UNCHANGED <<cfg, runs, now, lines, raw_urls, input_urls, history, ai_called,
                   site_blurb>>
    /\ UNCHANGED <<fileVars, outVars, ghostVars, concVars>>

\* variant of the test that ignores the budget of the call
ai_allowed_unbounded(c, calls_left) == c.ENABLE_AI /\ c.GEMINI_API_KEY # ""

\* line 536: if ENABLE_AI and GEMINI_API_KEY and ai_calls_left > 0
ai_allowed(c, calls_left) == c.ENABLE_AI /\ c.GEMINI_API_KEY # "" /\ calls_left > 0

\* enrich_urls lines 505-556: one iteration of the loop, with the outcome
\* `basic` of the fetch and the answer `answer` of the generative endpoint
EnrichUrl(basic, answer) ==
    LET u == all_urls_unique[idx]
        cur == DictGet(items, u)
        useAi == ai_allowed(cfg, ai_calls_left)
        ai == IF useAi THEN _gemini_summary(_gemini_json(cfg.GEMINI_API_KEY, answer), basic.title)
              ELSE [raised |-> FALSE, ok |-> FALSE, title |-> "", summary |-> ""]
    IN  /\ pc = "enrich"
        /\ idx <= Len(all_urls_unique)
        /\ IF ~URL_RE_match(u) \/ ~needs_refresh(cur, now)
           THEN /\ idx' = idx + 1
                /\ UNCHANGED <<pc, items, ai_calls_left, fetched, scraped, ai_ok, ai_called>>
           ELSE /\ fetched' = fetched \cup {u}
                /\ scraped' = DictPut(scraped, u, basic)
                /\ ai_ok' = IF ai.ok THEN ai_ok \cup {u} ELSE ai_ok
                /\ ai_calls_left' = IF useAi THEN ai_calls_left - 1 ELSE ai_calls_left
                /\ ai_called' = IF useAi THEN ai_called + 1 ELSE ai_called
                /\ IF ai.raised
                   THEN /\ pc' = "raised"
                        /\ UNCHANGED <<items, idx>>
                   ELSE /\ items' = DictPut(items, u, EnrichRecord(u, basic, ai, now))
                        /\ idx' = idx + 1
                        /\ pc' = pc
        /\ UNCHANGED <<cfg, runs, now, lines, raw_urls, input_urls, history, cache, bound,
                       site_blurb>>
        /\ UNCHANGED <<fileVars, outVars, ghostVars, concVars>>

\* variant that writes the cache inside the loop and returns
EnrichSave_in_loop ==
    /\ pc = "enrich"
    /\ enrichFile' = SaveCache(cache, items, bound)
    /\ pc' = "blurb"
    /\ UNCHANGED <<cfg, runs, now, lines, raw_urls, input_urls, history, ai_called,
                   site_blurb, historyFile, blurbFile>>
    /\ UNCHANGED <<enrichVars, outVars, ghostVars, concVars>>

\* enrich_urls lines 558-560: the cache document is written once, after the loop
EnrichSave ==
    /\ pc = "enrich"
    /\ idx > Len(all_urls_unique)
    /\ enrichFile' = SaveCache(cache, items, bound)
    /\ pc' = "blurb"
    /\ UNCHANGED <<cfg, runs, now, lines, raw_urls, input_urls, history, ai_called,
                   site_blurb, historyFile, blurbFile>>
    /\ UNCHANGED <<enrichVars, outVars, ghostVars, concVars>>

\* line 1365: site_blurb = get_site_blurb()
SiteBlurb(answer) ==
    LET r == get_site_blurb(cfg, blurbFile, answer, now) IN
    /\ pc = "blurb"
    /\ pc' = IF r.raised THEN "raised" ELSE "pages"
    /\ site_blurb' = IF r.raised THEN site_blurb ELSE r.rec
    /\ blurbFile' = r.file
    /\ ai_called' = IF r.called THEN ai_called + 1 ELSE ai_called
    /\ UNCHANGED <<cfg, runs, now, lines, raw_urls, input_urls, history, historyFile,
                   enrichFile>>
    /\ UNCHANGED <<enrichVars, outVars, ghostVars, concVars>>

\* lines 1367-1370: build_main_pages, build_static_pages, build_robots,
\* with the seeds of the scopes "all-display" and "index-display"
BuildPages(seed_all, seed_index) ==
    /\ pc = "pages"
    /\ written' = MainPagesWritten(history) \cup StaticPagesWritten
    /\ all_display' = display_list(cfg, all_urls_unique, seed_all)
    /\ index_display' = display_list(cfg, all_urls_unique, seed_index)
    /\ today_link' = DayPage(utc_today_iso(now))
    /\ pc' = "feeds"
    /\ UNCHANGED <<cfg, runs, now, lines, raw_urls, input_urls, history, ai_called,
                   site_blurb, sitemap, rss, notify>>
    /\ UNCHANGED <<fileVars, enrichVars, ghostVars, concVars>>

\* variant that keeps the ledger order
recent_external_unreversed(urls) == urls

\* line 1393: recent_external = list(reversed(all_urls_unique))
recent_external(urls) == Reverse(urls)

\* build_rss(external_urls): one <item> for each of external_urls[:MAX_RSS_ITEMS]
build_rss(c, external_urls) == Take(external_urls, c.MAX_RSS_ITEMS)

\* lines 1372-1396: sitemap, RSS and backlink feed
Publish ==
    /\ pc = "feeds"
    /\ sitemap' = build_sitemap(LocalPages(cfg, history))
    /\ rss' = build_rss(cfg, recent_external(all_urls_unique))
    /\ written' = written \cup {Page("sitemap.xml"), Page("rss.xml"), Page("backlink-feed.xml")}
    /\ pc' = "broadcast"
    /\ UNCHANGED <<cfg, runs, now, lines, raw_urls, input_urls, history, ai_called,
                   site_blurb, all_display, index_display, today_link, notify>>
    /\ UNCHANGED <<fileVars, enrichVars, ghostVars, concVars>>

\* list(dict.fromkeys(site_pages)): duplicates removed, first occurrence kept
RECURSIVE UniqueFrom(_, _, _)
UniqueFrom(q, i, out) ==
    IF i > Len(q) THEN out
    ELSE IF q[i] \in Range(out) THEN UniqueFrom(q, i + 1, out)
    ELSE UniqueFrom(q, i + 1, Append(out, q[i]))

IndexNowLimit == 10000

\* urlparse(BASE_URL).netloc: the host of an absolute url, "" without a scheme
urlparse_netloc(base) ==
    IF base \in {"https://hub", "https://hub2"} THEN "host" ELSE ""

\* variant that posts whatever ENABLE_INDEXNOW says
submit_indexnow_always(c, site_pages, status) ==
    IF c.BASE_URL = "" \/ urlparse_netloc(c.BASE_URL) = ""
    THEN [posted |-> FALSE, urlList |-> <<>>, status |-> 0]
    ELSE [posted |-> TRUE,
          urlList |-> Take(UniqueFrom(site_pages, 1, <<>>), IndexNowLimit),
          status |-> status]

\* submit_indexnow(site_pages): whether the POST is made, its urlList and the
\* status it gets (0 on any failure), which is ignored
submit_indexnow(c, site_pages, status) ==
    IF ~c.ENABLE_INDEXNOW \/ c.BASE_URL = "" \/ urlparse_netloc(c.BASE_URL) = ""
    THEN [posted |-> FALSE, urlList |-> <<>>, status |-> 0]
    ELSE [posted |-> TRUE,
          urlList |-> Take(UniqueFrom(site_pages, 1, <<>>), IndexNowLimit),
          status |-> status]

\* lines 1398-1400: submit_indexnow(local_pages) and ping_pingomatic(), whose
\* failure is ignored
Broadcast(status) ==
    LET r == submit_indexnow(cfg, LocalPages(cfg, history), status) IN
    /\ pc = "broadcast"
    /\ notify' = [posted |-> r.posted,
                  urlList |-> r.urlList,
                  status |-> r.status,
                  pinged |-> cfg.ENABLE_PINGOMATIC /\ cfg.BASE_URL # ""]
    /\ pc' = "done"
    /\ UNCHANGED <<cfg, runs, now, lines, raw_urls, input_urls, history, ai_called,
                   site_blurb, written, all_display, index_display, today_link,
                   sitemap, rss>>
    /\ UNCHANGED <<fileVars, enrichVars, ghostVars, concVars>>

\* the data directory of a finished build is built again by a deployment
\* whose BASE_URL, SITE_VARIANT and BUILD_NONCE are the given ones (lines
\* 39-46); what the finished build returned and displayed is remembered
Redeploy(base, variant, nonce) ==
    /\ pc = "done"
    /\ prev_build' = [built |-> TRUE, cfg |-> cfg, now |-> now, history |-> history,
                      blurb |-> site_blurb, all |-> all_display, index |-> index_display]
    /\ cfg' = [cfg EXCEPT !.BASE_URL = base, !.SITE_VARIANT = variant, !.BUILD_NONCE = nonce]
    /\ pc' = "redeployed"
    /\ UNCHANGED <<runs, now, lines, raw_urls, input_urls, history, ai_called, site_blurb,
                   first_run, prev_input, hist_before>>
    /\ UNCHANGED <<fileVars, enrichVars, outVars, concVars>>

\* one step of a build run, with the inputs of the run and the outcomes of
\* the external calls drawn from the given sets
NextOver(cap, times, files, fetches, answers, blurbs, seeds, statuses) ==
    \/ \E t \in times, file \in files : StartRun(t, file, cap)
    \/ EnrichLoad
    \/ \E basic \in fetches, answer \in answers : EnrichUrl(basic, answer)
    \/ EnrichSave
    \/ \E answer \in blurbs : SiteBlurb(answer)
    \/ \E seed_all \in seeds, seed_index \in seeds : BuildPages(seed_all, seed_index)
    \/ Publish
    \/ \E status \in statuses : Broadcast(status)

\* Runs over every input file and date; the network is down
LedgerTimes == {0, ENRICH_TTL_DAYS * UnitsPerDay, 20 * UnitsPerDay}

LedgerConfigs ==
    { DefaultConfig,
      [DefaultConfig EXCEPT !.BASE_URL = "https://hub", !.GEMINI_API_KEY = "k",
                            !.MAX_RSS_ITEMS = 1],
      [DefaultConfig EXCEPT !.BASE_URL = "https://hub", !.ENABLE_INDEXNOW = FALSE],
      [DefaultConfig EXCEPT !.BASE_URL = "hub"] }

Init ==
    /\ cfg \in LedgerConfigs
    /\ pc = "idle"
    /\ historyFile = NoHistory
    /\ enrichFile = CacheMissing
    /\ blurbFile = CacheMissing
    /\ InitRun

Next ==
    NextOver(MaxRuns, LedgerTimes, DataFiles, {FetchFailed}, {AiEmpty}, {BlurbEmpty}, {0},
             {0, 200})

Spec == Init /\ [][Next]_vars

\* Runs over every starting cache, fetch outcome and answer of the
\* generative endpoint; the input file lists one or two urls and the
\* notification calls fail
EnrichConfigs ==
    { DefaultConfig,
      [DefaultConfig EXCEPT !.ENABLE_AI = TRUE, !.MAX_AI_CALLS = 1],
      [DefaultConfig EXCEPT !.GEMINI_API_KEY = "k", !.MAX_AI_CALLS = 1],
      [DefaultConfig EXCEPT !.BASE_URL = "https://hub", !.ENABLE_AI = TRUE,
                            !.GEMINI_API_KEY = "k", !.MAX_AI_CALLS = 1] }

EnrichFiles == {FileOf(<<UrlA>>), FileOf(<<UrlA, UrlB>>)}

InitEnrich ==
    /\ cfg \in EnrichConfigs
    /\ pc = "idle"
    /\ historyFile = NoHistory
    /\ enrichFile \in InitEnrichFiles
    /\ blurbFile = CacheMissing
    /\ InitRun

NextEnrich ==
    NextOver(MaxEnrichRuns, Times, EnrichFiles, FetchOutcomes, AiAnswers, BlurbAnswers, {0},
             {0})

SpecEnrich == InitEnrich /\ [][NextEnrich]_vars

\* Runs whose date never decreases: a run starts on the day of the run
\* before it or on a later day
LaterTimes == {t \in LedgerTimes : utc_today_iso(t) >= utc_today_iso(now)}

InitMonotone ==
    /\ cfg = DefaultConfig
    /\ pc = "idle"
    /\ historyFile = NoHistory
    /\ enrichFile = CacheMissing
    /\ blurbFile = CacheMissing
    /\ InitRun

NextMonotone ==
    NextOver(MaxRuns, LaterTimes, DataFiles, {FetchFailed}, {AiEmpty}, {BlurbEmpty}, {0}, {0})

SpecMonotone == InitMonotone /\ [][NextMonotone]_vars

\* Runs over every outcome of a successful or failed fetch: a title, a
\* description, both or neither
SummaryFetchOutcomes ==
    { FetchFailed,
      [http_status |-> 200, title |-> "T", description |-> "D"],
      [http_status |-> 200, title |-> "T", description |-> ""],
      [http_status |-> 200, title |-> "", description |-> "D"],
      [http_status |-> 200, title |-> "", description |-> ""] }

SummaryConfigs ==
    { DefaultConfig,
      [DefaultConfig EXCEPT !.ENABLE_AI = TRUE, !.GEMINI_API_KEY = "k", !.MAX_AI_CALLS = 1] }

SummaryTimes == {0, 20 * UnitsPerDay}

InitSummary ==
    /\ cfg \in SummaryConfigs
    /\ pc = "idle"
    /\ historyFile = NoHistory
    /\ enrichFile \in {CacheMissing, CacheDoc("dict", [u \in {UrlZ} |-> OldRecord(Stamp(0))])}
    /\ blurbFile = CacheMissing
    /\ InitRun

NextSummary ==
    NextOver(MaxSummaryRuns, SummaryTimes, EnrichFiles, SummaryFetchOutcomes, AiAnswers,
             {BlurbEmpty}, {0}, {0})

SpecSummary == InitSummary /\ [][NextSummary]_vars

\* Runs over every starting blurb cache; a finished build is followed by
\* another one of the same or of another deployment
BlurbRecord(b, stamp) == [blurb |-> b, meta_description |-> b, fetched_utc |-> stamp]

InitBlurbFiles ==
    { CacheMissing, CacheCorrupt,
      CacheDoc("dict", EmptyDict), CacheDoc("absent", EmptyDict),
      CacheDoc("dict", [k \in {"https://other"} |-> BlurbRecord("other", Stamp(0))]),
      CacheDoc("dict", [k \in {"https://hub"} |-> BlurbRecord("old", Stamp(0))]) }

BlurbConfigs ==
    { DefaultConfig,
      [DefaultConfig EXCEPT !.ENABLE_SITE_BLURB = FALSE],
      [DefaultConfig EXCEPT !.BASE_URL = "https://hub", !.GEMINI_API_KEY = "k"] }

BlurbTimes == {0, 1, SITE_BLURB_TTL_DAYS * UnitsPerDay}

InitBlurb ==
    /\ cfg \in BlurbConfigs
    /\ pc = "idle"
    /\ historyFile = NoHistory
    /\ enrichFile = CacheMissing
    /\ blurbFile \in InitBlurbFiles
    /\ InitRun

NextBlurb ==
    \/ NextOver(MaxBlurbRuns, BlurbTimes, {FileOf(<<UrlA>>)}, {FetchFailed}, {AiEmpty},
                BlurbAnswers, {0}, {0})
    \/ \E variant \in {"", "v"} : Redeploy(cfg.BASE_URL, variant, cfg.BUILD_NONCE)

SpecBlurb == InitBlurb /\ [][NextBlurb]_vars

\* Runs of two deployments of the same data directory, over every seed of
\* the two displayed tables
DisplayConfigs ==
    { [DefaultConfig EXCEPT !.BASE_URL = "https://hub", !.MAX_ALL_LIST = n] : n \in {1, 2, 500} }

DisplayFiles == {NoFile, FileOf(<<UrlA>>), FileOf(<<UrlA, UrlB>>), FileOf(<<UrlA, UrlB, UrlZ>>)}

InitDisplay ==
    /\ cfg \in DisplayConfigs
    /\ pc = "idle"
    /\ historyFile = NoHistory
    /\ enrichFile = CacheMissing
    /\ blurbFile = CacheMissing
    /\ InitRun

NextDisplay ==
    \/ NextOver(MaxDisplayRuns, {0}, DisplayFiles, {FetchFailed}, {AiEmpty}, {BlurbEmpty},
                Seeds, {0})
    \/ \E base \in {"https://hub", "https://hub2"}, variant \in {"", "v"}, nonce \in {"", "n"} :
           Redeploy(base, variant, nonce)

SpecDisplay == InitDisplay /\ [][NextDisplay]_vars

\* Concurrent runs on one data directory: each process runs
\* update_history_with_today once, and another process may run between its
\* read_history and its write_history
ConcRead(p, t, file) ==
    LET inp == dedupe_preserve_order(read_input_urls(file))
        h == read_history(historyFile)
    IN  /\ procs[p].pc = "idle"
        /\ procs' = [procs EXCEPT ![p] = [pc |-> "read", input_urls |-> inp,
                                          today |-> utc_today_iso(t), read |-> h,
                                          history |-> h]]
        /\ UNCHANGED <<cfg, pc, runs, now, lines, raw_urls, input_urls, history, ai_called,
                       site_blurb, last_writer>>
        /\ UNCHANGED <<fileVars, enrichVars, outVars, ghostVars>>

\* lines 152-164 of process p, on the ledger it read earlier
ConcWrite(p) ==
    LET r == merge_and_write(historyFile, procs[p].read, procs[p].input_urls, procs[p].today)
    IN  /\ procs[p].pc = "read"
        /\ historyFile' = r.file
        /\ procs' = [procs EXCEPT ![p].pc = "written", ![p].history = r.history]
        /\ last_writer' = IF r.changed THEN p ELSE last_writer
        /\ UNCHANGED <<cfg, pc, runs, now, lines, raw_urls, input_urls, history, ai_called,
                       site_blurb, enrichFile, blurbFile>>
        /\ UNCHANGED <<enrichVars, outVars, ghostVars>>

ConcFiles == {NoFile, FileOf(<<UrlA>>), FileOf(<<UrlB>>), FileOf(<<UrlA, UrlB>>)}

ConcTimes == {0, UnitsPerDay}

InitConcurrent ==
    /\ cfg = DefaultConfig
    /\ pc = "idle"
    /\ historyFile \in {NoHistory, write_history(<<<<0, UrlZ>>>>)}
    /\ enrichFile = CacheMissing
    /\ blurbFile = CacheMissing
    /\ InitRun

NextConcurrent ==
    \/ \E p \in Procs, t \in ConcTimes, file \in ConcFiles : ConcRead(p, t, file)
    \/ \E p \in Procs : ConcWrite(p)

SpecConcurrent == InitConcurrent /\ [][NextConcurrent]_vars

\* ------------------------------------------------------------------------
\* The ingest functions on their own: read_input_urls and
\* dedupe_preserve_order applied to enumerated lists of raw lines
\* ------------------------------------------------------------------------
Pieces == { HttpPrefix, <<"a">>, <<" ">>, <<",">>, <<"\n">> }

RECURSIVE Concat(_)
Concat(qs) == IF qs = <<>> THEN <<>> ELSE Head(qs) \o Concat(Tail(qs))

\* text.splitlines(): the lines between line breaks; a line break at the
\* end of the text opens no further line
RECURSIVE SplitLinesFrom(_, _, _)
SplitLinesFrom(text, i, cur) ==
    IF i > Len(text) THEN (IF cur = <<>> THEN <<>> ELSE <<cur>>)
    ELSE IF text[i] = "\n" THEN <<cur>> \o SplitLinesFrom(text, i + 1, <<>>)
    ELSE SplitLinesFrom(text, i + 1, Append(cur, text[i]))

splitlines(text) == SplitLinesFrom(text, 1, <<>>)

ExampleUrl ==
    <<"h", "t", "t", "p", "s", ":", "/", "/", "a", ".", "c", "o", "m", "/", "x">>
NotAUrl == <<"n", "o", "t", "-", "a", "-", "u", "r", "l">>
ExampleLines == <<ExampleUrl, ExampleUrl \o <<" ">>, NotAUrl>>

\* the texts of data/daily.csv: every concatenation of up to MaxPieces pieces
FileTexts == {Concat(ps) : ps \in SeqsUpTo(Pieces, MaxPieces)}

InputLists ==
    {splitlines(text) : text \in FileTexts}
        \cup { ExampleLines,
               <<HeaderWord, ExampleUrl>>,
               <<<<"U", "R", "L", " ">>, <<"H", "T", "T", "P", "S", ":", "/", "/", "a">>>>,
               <<ExampleUrl, HeaderWord>>,
               <<<<"\t">> \o HttpPrefix \o <<"a", "\t", "a">>, HttpPrefix \o <<"a", "a">>>>,
               <<<<"f", "t", "p", ":", "/", "/", "a">>, <<"1", ",", " ">> \o ExampleUrl>> }

InitIngest ==
    /\ cfg = DefaultConfig
    /\ pc = "input"
    /\ historyFile = NoHistory
    /\ enrichFile = CacheMissing
    /\ blurbFile = CacheMissing
    /\ InitRun

\* the caller supplies the lines of data/daily.csv
ChooseLines(ls) ==
    /\ pc = "input"
    /\ lines' = FileOf(ls)
    /\ pc' = "chosen"
    /\ UNCHANGED <<cfg, runs, now, raw_urls, input_urls, history, ai_called, site_blurb>>
    /\ UNCHANGED <<fileVars, enrichVars, outVars, ghostVars, concVars>>

\* urls = read_input_urls()
ReadInput ==
    /\ pc = "chosen"
    /\ raw_urls' = read_input_urls(lines)
    /\ pc' = "read"
    /\ UNCHANGED <<cfg, runs, now, lines, input_urls, history, ai_called, site_blurb>>
    /\ UNCHANGED <<fileVars, enrichVars, outVars, ghostVars, concVars>>

\* input_urls = dedupe_preserve_order(urls)
DedupeInput ==
    /\ pc = "read"
    /\ input_urls' = dedupe_preserve_order(raw_urls)
    /\ pc' = "ingested"
    /\ UNCHANGED <<cfg, runs, now, lines, raw_urls, history, ai_called, site_blurb>>
    /\ UNCHANGED <<fileVars, enrichVars, outVars, ghostVars, concVars>>

\* dedupe_preserve_order called on the raw lines themselves, an arbitrary
\* list of strings
DedupeRaw ==
    /\ pc = "chosen"
    /\ raw_urls' = lines.lines
    /\ input_urls' = dedupe_preserve_order(lines.lines)
    /\ pc' = "deduped"
    /\ UNCHANGED <<cfg, runs, now, lines, history, ai_called, site_blurb>>
    /\ UNCHANGED <<fileVars, enrichVars, outVars, ghostVars, concVars>>

NextIngest ==
    \/ \E ls \in InputLists : ChooseLines(ls)
    \/ ReadInput
    \/ DedupeInput
    \/ DedupeRaw

SpecIngest == InitIngest /\ [][NextIngest]_vars

\* ------------------------------------------------------------------------
\* Properties of the ingest functions (SpecIngest)
\* ------------------------------------------------------------------------
\* a string with all its whitespace removed
Squeeze(s) == SelectSeq(s, LAMBDA c : c \notin White)

\* s starts with http:// or https://, in any letter case
StartsWithHttp(s) ==
    \E p \in {HttpPrefix, HttpsPrefix} :
        /\ Len(s) >= Len(p)
        /\ \A k \in 1..Len(p) : LowerChar(s[k]) = p[k]

Min(S) == CHOOSE x \in S : \A y \in S : x <= y
Max(S) == CHOOSE x \in S : \A y \in S : x >= y

\* index of the first element of inp that squeezes to x
FirstIndex(inp, x) == Min({k \in DOMAIN inp : Squeeze(inp[k]) = x})

DedupeDone == pc \in {"ingested", "deduped"}

\* C1: dedupe_preserve_order returns the whitespace-free forms of its input,
\* without the empty one, each exactly once and ordered by first occurrence
C1_DedupePreservesOrder ==
    DedupeDone =>
        /\ Range(input_urls) = {Squeeze(raw_urls[k]) : k \in DOMAIN raw_urls} \ {<<>>}
        /\ \A i, j \in DOMAIN input_urls : i # j => input_urls[i] # input_urls[j]
        /\ \A i, j \in DOMAIN input_urls :
               i < j => FirstIndex(raw_urls, input_urls[i]) < FirstIndex(raw_urls, input_urls[j])

\* two different raw strings, equal once whitespace is removed, gave one element
C1_Witness ==
    /\ pc = "deduped"
    /\ Len(raw_urls) = 2
    /\ raw_urls[1] # raw_urls[2]
    /\ Squeeze(raw_urls[1]) = Squeeze(raw_urls[2])
    /\ Len(input_urls) = 1

\* the last non-empty comma-separated field of s, stripped (s has one)
LastField(s) ==
    LET m == Max({k \in DOMAIN s : s[k] \notin White \cup {","}})
        a == Max({k \in 1..m : s[k] = ","} \cup {0})
        b == Min({k \in m..Len(s) : s[k] = ","} \cup {Len(s) + 1})
    IN  strip(SubSeq(s, a + 1, b - 1))

HasField(s) == \E k \in DOMAIN s : s[k] \notin White \cup {","}

\* what raw line number k (1-based) contributes to the ingested list
Contribution(k, raw) ==
    LET s == strip(raw) IN
    IF s = <<>> THEN {}
    ELSE IF k = 1 /\ Lower(s) = HeaderWord THEN {}
    ELSE IF StartsWithHttp(s) THEN {Squeeze(s)}
    ELSE IF (\E i \in DOMAIN s : s[i] = ",") /\ HasField(s) /\ StartsWithHttp(LastField(s))
    THEN {Squeeze(LastField(s))}
    ELSE {}

\* C9: the ingest stage returns only http(s) urls: blank lines, a header
\* line and lines that are neither a url nor a legacy line ending in a url
\* contribute nothing; the example of the specification gives one url
C9_IngestOnlyHttp ==
    pc = "ingested" =>
        /\ \A i \in DOMAIN input_urls : StartsWithHttp(input_urls[i])
        /\ Range(input_urls) =
               UNION {Contribution(k, lines.lines[k]) : k \in DOMAIN lines.lines}
        /\ (lines.lines = ExampleLines => input_urls = <<ExampleUrl>>)

C9_Witness ==
    /\ pc = "ingested"
    /\ lines.lines = ExampleLines
    /\ input_urls = <<ExampleUrl>>

\* ------------------------------------------------------------------------
\* Properties of the history ledger (Spec)
\* ------------------------------------------------------------------------
IsPrefix(p, q) == Len(p) <= Len(q) /\ \A k \in DOMAIN p : q[k] = p[k]

LedgerRows == historyFile.rows
Today == utc_today_iso(now)

\* C2: every url has at most one ledger row, and the row has the date of the
\* first run that ingested the url
C2_OneRowFirstDate ==
    /\ \A i, j \in DOMAIN LedgerRows : i # j => LedgerRows[i][2] # LedgerRows[j][2]
    /\ \A i \in DOMAIN LedgerRows :
           /\ LedgerRows[i][2] \in DOMAIN first_run
           /\ LedgerRows[i][1] = first_run[LedgerRows[i][2]]
    /\ \A u \in DOMAIN first_run : \E i \in DOMAIN LedgerRows : LedgerRows[i][2] = u

\* a second run on another date ingests a url that is already in the ledger
C2_Witness ==
    /\ runs = 2
    /\ \E i \in DOMAIN LedgerRows :
           /\ LedgerRows[i][2] \in Range(input_urls)
           /\ LedgerRows[i][1] # Today
           /\ LedgerRows[i][1] = first_run[LedgerRows[i][2]]

\* C5: the merge appends the input urls that were not in the ledger, in input
\* order, each once and with today's date, and nothing for the others
C5_AppendsExactlyNew ==
    runs > 0 =>
        LET old == hist_before.rows
            fresh == SelectSeq(input_urls,
                               LAMBDA u : \A k \in DOMAIN old : old[k][2] # u)
            added == SubSeq(LedgerRows, Len(old) + 1, Len(LedgerRows))
        IN  /\ Len(LedgerRows) = Len(old) + Len(fresh)
            /\ \A k \in DOMAIN fresh : added[k] = <<Today, fresh[k]>>
            /\ history = LedgerRows

\* a run whose input has a url of the ledger followed by a new one
C5_Witness ==
    /\ runs = 2
    /\ Len(input_urls) = 2
    /\ Len(hist_before.rows) = 1
    /\ Len(LedgerRows) = 2
    /\ hist_before.rows[1][2] = input_urls[1]
    /\ LedgerRows[2] = <<Today, input_urls[2]>>

\* C6: a step never removes, reorders or re-dates a row of the ledger file
C6_LedgerOnlyGrows ==
    [][/\ IsPrefix(historyFile.rows, historyFile'.rows)
       /\ (historyFile.exists => historyFile'.exists)]_vars

\* a run on another date ingested a url of the ledger again, with a new one,
\* and the old row is still the first
C6_Witness ==
    /\ runs = 2
    /\ Len(hist_before.rows) >= 1
    /\ Len(LedgerRows) > Len(hist_before.rows)
    /\ hist_before.rows[1][2] \in Range(input_urls)
    /\ hist_before.rows[1][1] # Today
    /\ LedgerRows[1] = hist_before.rows[1]

\* C7: a run with the same input list as the run before adds no row
C7_SecondMergeAddsNothing ==
    (runs >= 2 /\ input_urls = prev_input) => historyFile = hist_before

\* the second run has the same, non-empty input and a later date
C7_Witness ==
    /\ runs = 2
    /\ input_urls = prev_input
    /\ input_urls # <<>>
    /\ \A i \in DOMAIN LedgerRows : LedgerRows[i][1] < Today
    /\ historyFile = hist_before

\* C10: once the sitemap is written, every date of the ledger has its
\* d/<date>.html entry in it and its page file written by this build
SitemapWritten == pc \in {"broadcast", "done"}

C10_SitemapHasEveryDay ==
    SitemapWritten =>
        \A i \in DOMAIN LedgerRows :
            /\ abs_url(cfg, DayPage(LedgerRows[i][1])) \in Range(sitemap)
            /\ DayPage(LedgerRows[i][1]) \in written

\* a finished build whose ledger has rows of two dates, one before today
C10_Witness ==
    /\ pc = "done"
    /\ \E i, j \in DOMAIN LedgerRows :
           LedgerRows[i][1] # LedgerRows[j][1] /\ LedgerRows[i][1] < Today
    /\ \A i \in DOMAIN LedgerRows : DayPage(LedgerRows[i][1]) \in written

\* ------------------------------------------------------------------------
\* Properties of the enrichment cache (SpecEnrich)
\* ------------------------------------------------------------------------
\* the fetched_utc that data/enriched.json holds for url u
CachedStamp(file, u) ==
    IF file.kind = "json" /\ file.itemsTy = "dict" /\ u \in DOMAIN file.items
    THEN file.items[u].fetched_utc
    ELSE NoStamp

CacheSaved == pc \in {"blurb", "pages", "feeds", "broadcast", "done"}

\* C3: after enrich_urls has written the cache, the document on disk holds
\* the record of every url refreshed by the call
C3_RefreshedRecordIsSaved ==
    CacheSaved =>
        \A u \in fetched :
            /\ enrichFile.kind = "json"
            /\ enrichFile.itemsTy = "dict"
            /\ u \in DOMAIN enrichFile.items
            /\ enrichFile.items[u] = items[u]

\* C4: a target that enrich_urls has passed was fetched exactly when the
\* cache held no fetched_utc for it, an unparsable one, or one at least
\* ENRICH_TTL_DAYS whole days old
C4_RefetchIffStale ==
    pc = "enrich" =>
        \A k \in 1..(idx - 1) :
            LET u == all_urls_unique[k]
                st == CachedStamp(enrichFile, u)
            IN  (u \in fetched) <=>
                    \/ st.s = "none"
                    \/ st.s = "bad"
                    \/ now - st.t >= ENRICH_TTL_DAYS * UnitsPerDay

\* the example: an entry fetched 20 days ago is fetched again
C4_Witness ==
    /\ pc = "enrich"
    /\ idx > 1
    /\ CachedStamp(enrichFile, all_urls_unique[1]).s = "ok"
    /\ now - CachedStamp(enrichFile, all_urls_unique[1]).t = 20 * UnitsPerDay
    /\ all_urls_unique[1] \in fetched

\* C8: no outcome of an external call makes an exception leave main
C8_NoExceptionReachesCaller == pc # "raised"

\* the call of enrich_urls is running or has just returned: ai_called counts
\* the calls made by enrich_urls only
InEnrichCall == pc \in {"enrich", "blurb"}

\* an exception left enrich_urls while it processed url u
RaisedAt(u) ==
    /\ pc = "raised"
    /\ idx <= Len(all_urls_unique)
    /\ all_urls_unique[idx] = u

\* C11: one call of enrich_urls calls the generative endpoint at most
\* MAX_AI_CALLS times, never when ENABLE_AI is off or GEMINI_API_KEY is
\* empty, and each call is made for a url that the same step starts to refresh
C11_AiCallsWithinBudget ==
    /\ [](InEnrichCall =>
            /\ ai_called <= cfg.MAX_AI_CALLS
            /\ ai_called <= Cardinality(fetched)
            /\ ((~cfg.ENABLE_AI \/ cfg.GEMINI_API_KEY = "") => ai_called = 0))
    /\ [][(pc = "enrich" /\ ai_called' # ai_called) =>
            /\ ai_called' = ai_called + 1
            /\ all_urls_unique[idx] \notin fetched
            /\ fetched' = fetched \cup {all_urls_unique[idx]}
            /\ needs_refresh(DictGet(items, all_urls_unique[idx]), now)]_vars

\* two urls were refreshed with a budget of one call, which was spent
C11_Witness ==
    /\ pc = "blurb"
    /\ Cardinality(fetched) = 2
    /\ cfg.MAX_AI_CALLS = 1
    /\ ai_called = 1

LoadedRecords == IF cache.itemsTy = "dict" THEN cache.items ELSE EmptyDict

\* C19: enrich_urls leaves every record it does not refresh as it was, in
\* the mapping it returns and in the document it writes: a record younger
\* than the TTL and a record of a url that is not a target keep all fields
C19_UnrefreshedRecordsKept ==
    /\ (pc = "enrich" \/ CacheSaved) =>
           \A u \in DOMAIN LoadedRecords :
               u \notin fetched => u \in DOMAIN items /\ items[u] = LoadedRecords[u]
    /\ CacheSaved =>
           \A u \in DOMAIN LoadedRecords :
               u \notin fetched =>
                   /\ u \in DOMAIN enrichFile.items
                   /\ enrichFile.items[u] = LoadedRecords[u]

\* the cache was written after a refresh and still holds the record of a
\* url that was not a target
C19_Witness ==
    /\ CacheSaved
    /\ fetched # {}
    /\ UrlZ \in DOMAIN enrichFile.items
    /\ enrichFile.items[UrlZ] = OldRecord(Stamp(0))
    /\ UrlZ \notin Range(all_urls_unique)

\* C20: the cache file changes only in the step that ends the loop of
\* enrich_urls, after the last target; that step leaves a JSON document even
\* when no url was refreshed; a step inside the loop, an exception included,
\* leaves the file as it was
C20_CacheWrittenOnceAfterLoop ==
    [][/\ (enrichFile' # enrichFile =>
              pc = "enrich" /\ idx > Len(all_urls_unique) /\ pc' = "blurb")
       /\ ((pc = "enrich" /\ pc' = "blurb") =>
              idx > Len(all_urls_unique) /\ enrichFile'.kind = "json")
       /\ ((pc = "enrich" /\ pc' \in {"enrich", "raised"}) => enrichFile' = enrichFile)]_vars

\* an exception left the loop after a fetch and there is still no cache file
C20_Witness ==
    /\ pc = "raised"
    /\ runs = 1
    /\ fetched # {}
    /\ idx <= Len(all_urls_unique)
    /\ enrichFile.kind = "missing"

\* ------------------------------------------------------------------------
\* Properties of the summary of a refreshed record (SpecSummary)
\* ------------------------------------------------------------------------
\* C13: a refreshed record for which no summary came from the generative
\* endpoint has the scraped description as its summary when that is not
\* empty, else the scraped title when that is not empty, else ""
C13_FallbackSummary ==
    \A u \in fetched \ ai_ok :
        ~RaisedAt(u) =>
            /\ u \in DOMAIN items
            /\ items[u].summary =
                   IF scraped[u].description # "" THEN scraped[u].description
                   ELSE IF scraped[u].title # "" THEN scraped[u].title
                   ELSE ""

\* the endpoint is enabled and gave no summary for a page that has a title
\* and no description
C13_Witness ==
    /\ cfg.ENABLE_AI
    /\ \E u \in fetched \ ai_ok :
           /\ ~RaisedAt(u)
           /\ scraped[u].description = ""
           /\ scraped[u].title = "T"
           /\ items[u].summary = "T"

\* ------------------------------------------------------------------------
\* Properties of the site blurb cache (SpecBlurb)
\* ------------------------------------------------------------------------
\* the build before this one generated the blurb it returned, and this
\* build has the same deployment key and runs within the TTL of that blurb
BlurbGeneratedBefore ==
    /\ prev_build.built
    /\ prev_build.cfg.ENABLE_SITE_BLURB
    /\ prev_build.blurb.fetched_utc = Stamp(prev_build.now)
    /\ BlurbKey(cfg) = BlurbKey(prev_build.cfg)
    /\ now >= prev_build.now
    /\ _days_old(Stamp(prev_build.now), now) < SITE_BLURB_TTL_DAYS

\* C14: when the build before generated a blurb for the deployment key, the
\* call of get_site_blurb of a build with the same key within
\* SITE_BLURB_TTL_DAYS returns that record, calls no endpoint and leaves the
\* cache file as it is, whatever the cache file was before the first call
C14_GeneratedBlurbIsReused ==
    [][(pc = "blurb" /\ pc' # "blurb" /\ BlurbGeneratedBefore) =>
          /\ pc' = "pages"
          /\ site_blurb' = prev_build.blurb
          /\ ai_called' = ai_called
          /\ blurbFile' = blurbFile]_vars

\* ------------------------------------------------------------------------
\* Properties of the displayed tables (SpecDisplay)
\* ------------------------------------------------------------------------
\* this build and the build before it were made from the same ledger by
\* deployments that differ in BASE_URL, SITE_VARIANT or BUILD_NONCE only
SameLedgerOtherDeployment ==
    /\ prev_build.built
    /\ pc \in {"feeds", "broadcast", "done"}
    /\ history = prev_build.history
    /\ cfg # prev_build.cfg
    /\ cfg = [prev_build.cfg EXCEPT !.BASE_URL = cfg.BASE_URL,
                                    !.SITE_VARIANT = cfg.SITE_VARIANT,
                                    !.BUILD_NONCE = cfg.BUILD_NONCE]

\* C15: two builds from the same ledger that differ in BASE_URL,
\* SITE_VARIANT or BUILD_NONCE only list the same set of urls on all.html
\* and on index.html
C15_ShuffleChangesOnlyOrder ==
    SameLedgerOtherDeployment =>
        /\ Range(all_display) = Range(prev_build.all)
        /\ Range(index_display) = Range(prev_build.index)

\* ------------------------------------------------------------------------
\* Properties of the notification and of the ledger file (Spec)
\* ------------------------------------------------------------------------
\* C16: a POST to IndexNow is made only with ENABLE_INDEXNOW on and BASE_URL
\* set; its urlList has no duplicate and at most 10000 entries, each the
\* absolute url of the root or of a file this build wrote
C16_IndexNowOnlyOwnPages ==
    notify.posted =>
        /\ cfg.ENABLE_INDEXNOW
        /\ cfg.BASE_URL # ""
        /\ Len(notify.urlList) <= 10000
        /\ \A i, j \in DOMAIN notify.urlList : i # j => notify.urlList[i] # notify.urlList[j]
        /\ \A i \in DOMAIN notify.urlList :
               /\ notify.urlList[i].base = cfg.BASE_URL
               /\ notify.urlList[i].page \in written \cup {Page("")}

\* a finished build posted the fixed pages and the pages of two days of a
\* ledger that has external links
C16_Witness ==
    /\ pc = "done"
    /\ notify.posted
    /\ Len(notify.urlList) = 11
    /\ Len(all_urls_unique) >= 2

\* the input urls that the ledger read by this run did not have
FreshInput ==
    SelectSeq(input_urls,
              LAMBDA u : \A k \in DOMAIN hist_before.rows : hist_before.rows[k][2] # u)

\* C18: update_history_with_today leaves the history file as it found it,
\* absent if it was absent, and returns the ledger it read when no row is
\* appended; else the file is the returned ledger, which has the new rows
C18_WritesIffAppended ==
    runs > 0 =>
        IF FreshInput = <<>>
        THEN /\ historyFile = hist_before
             /\ history = read_history(hist_before)
        ELSE /\ historyFile = write_history(history)
             /\ historyFile # hist_before
             /\ Len(history) = Len(read_history(hist_before)) + Len(FreshInput)

\* a run whose input, other than that of the run before, has only urls of
\* the ledger left the file of two rows as it was
C18_Witness ==
    /\ runs = 2
    /\ input_urls # <<>>
    /\ input_urls # prev_input
    /\ Len(hist_before.rows) = 2
    /\ historyFile = hist_before

\* ------------------------------------------------------------------------
\* Properties of concurrent runs (SpecConcurrent)
\* ------------------------------------------------------------------------
\* the urls that process p appended to the ledger it had read
AppendedBy(p) ==
    {u \in Range(procs[p].input_urls) : u \notin Range(UrlsOf(procs[p].read))}

\* C17: the history file is always the ledger of the process that wrote it
\* last: the rows that process read plus the rows it appended, without the
\* rows another process wrote in between
C17_LastWriterOverwrites ==
    last_writer # 0 =>
        /\ historyFile.rows = procs[last_writer].history
        /\ \A i \in DOMAIN historyFile.rows :
               \/ historyFile.rows[i] \in Range(procs[last_writer].read)
               \/ /\ historyFile.rows[i][2] \in AppendedBy(last_writer)
                  /\ historyFile.rows[i][1] = procs[last_writer].today

\* two runs that ingested different new urls have finished and the file has
\* no row for the url of one of them
C17_Witness ==
    /\ \A p \in Procs : procs[p].pc = "written"
    /\ \E p, q \in Procs :
           /\ p # q
           /\ AppendedBy(p) # {}
           /\ AppendedBy(q) # {}
           /\ AppendedBy(p) \cap AppendedBy(q) = {}
           /\ \E u \in AppendedBy(p) : u \notin Range(UrlsOf(historyFile.rows))

\* ------------------------------------------------------------------------
\* Properties of the RSS feed and of the today link (Spec)
\* ------------------------------------------------------------------------
\* C21: the items of rss.xml are the urls of the ledger from the last row
\* backwards, as many as the ledger has and at most MAX_RSS_ITEMS, so the
\* urls left out are those of the first rows
C21_RssNewestFirst ==
    SitemapWritten =>
        LET n == Len(LedgerRows)
            m == Min({n, cfg.MAX_RSS_ITEMS})
        IN  /\ Len(rss) = m
            /\ \A k \in 1..m : rss[k] = LedgerRows[n - k + 1][2]

\* a ledger of two rows and a feed of one item, the url of the second row
C21_Witness ==
    /\ pc = "done"
    /\ cfg.MAX_RSS_ITEMS = 1
    /\ Len(LedgerRows) = 2
    /\ rss = <<LedgerRows[2][2]>>
    /\ LedgerRows[1][2] # LedgerRows[2][2]

\* ------------------------------------------------------------------------
\* Properties of runs whose date never decreases (SpecMonotone)
\* ------------------------------------------------------------------------
\* C22: from an empty ledger and with run dates that never decrease, the
\* rows of the ledger are in non-decreasing order of date, no row is dated
\* after the latest run, and the rows of the latest run are the last ones
C22_LedgerSortedByDate ==
    /\ \A i, j \in DOMAIN LedgerRows : i < j => LedgerRows[i][1] <= LedgerRows[j][1]
    /\ runs > 0 =>
           /\ \A i \in DOMAIN LedgerRows : LedgerRows[i][1] <= Today
           /\ \A i \in DOMAIN LedgerRows :
                  i > Len(hist_before.rows) <=> LedgerRows[i][2] \in Range(FreshInput)

\* the second run, on a later day, added a row after the row of the first
C22_Witness ==
    /\ runs = 2
    /\ Len(hist_before.rows) >= 1
    /\ Len(LedgerRows) > Len(hist_before.rows)
    /\ LedgerRows[1][1] < LedgerRows[Len(LedgerRows)][1]
    /\ LedgerRows[Len(LedgerRows)][1] = Today

\* ------------------------------------------------------------------------
\* Properties of the timestamp of a refreshed record (SpecEnrich)
\* ------------------------------------------------------------------------
\* C23: every record refreshed by this call has fetched_utc = now, whatever
\* the fetch and the generative endpoint gave; a target whose record in the
\* cache file is younger than ENRICH_TTL_DAYS is not fetched, gets no
\* summary from the endpoint and keeps its record
C23_RefreshStampsNow ==
    /\ \A u \in fetched :
           ~RaisedAt(u) => u \in DOMAIN items /\ items[u].fetched_utc = Stamp(now)
    /\ pc = "enrich" =>
           \A k \in 1..(idx - 1) :
               LET u == all_urls_unique[k]
                   st == CachedStamp(enrichFile, u)
               IN  (st.s = "ok" /\ now - st.t < ENRICH_TTL_DAYS * UnitsPerDay) =>
                       /\ u \notin fetched
                       /\ u \notin ai_ok
                       /\ items[u] = enrichFile.items[u]

\* the run before recorded a failed fetch; this run, within the TTL and with
\* the endpoint enabled, passed the url without fetching it
C23_Witness ==
    /\ runs = 2
    /\ pc = "enrich"
    /\ idx > 1
    /\ cfg.ENABLE_AI
    /\ cfg.GEMINI_API_KEY # ""
    /\ CachedStamp(enrichFile, all_urls_unique[1]).s = "ok"
    /\ enrichFile.items[all_urls_unique[1]].http_status = 0
    /\ enrichFile.items[all_urls_unique[1]].summary = ""
    /\ now - CachedStamp(enrichFile, all_urls_unique[1]).t < ENRICH_TTL_DAYS * UnitsPerDay
    /\ all_urls_unique[1] \notin fetched

\* ------------------------------------------------------------------------
\* Properties of the today link (Spec)
\* ------------------------------------------------------------------------
\* C24: once the pages are built, the d/<today>.html page that index.html
\* and all.html link to is among the files this build wrote
C24_TodayPageWritten ==
    pc \in {"feeds", "broadcast", "done"} => today_link \in written

\* ------------------------------------------------------------------------
\* Properties of a missing or unparsable cache file (SpecEnrich)
\* ------------------------------------------------------------------------
CacheFileUnusable(file) == file.kind \in {"missing", "corrupt"}

\* with data/enriched.json missing or unparsable, enrich_urls starts from an
\* empty cache and fetches every target it passes
EmptyCacheLoaded ==
    (pc \in {"enrich", "raised"} /\ CacheFileUnusable(enrichFile)) =>
        /\ cache = CacheDoc("dict", EmptyDict)
        /\ \A k \in 1..(idx - 1) : all_urls_unique[k] \in fetched

\* C25: when data/enriched.json or data/site_blurbs.json is missing or does
\* not parse, the loader gives an empty cache, every target is fetched, and
\* no exception leaves the build
C25_UnusableCacheIsEmptyCache ==
    /\ EmptyCacheLoaded
    /\ (CacheFileUnusable(enrichFile) \/ CacheFileUnusable(blurbFile)) => pc # "raised"

====
